---------------------------- MODULE Spec2Model ----------------------------
(***************************************************************************)
(* Model of src/src/error.rs of nvml-wrapper: the error taxonomy declared  *)
(* by error_chain! and nvml_try, the translation of a native nvmlReturn_t  *)
(* status code into Result<()>.                                            *)
(*                                                                         *)
(* Three specifications share the module:                                  *)
(*   Spec     threads calling nvml_try, each with its own code             *)
(*   SpecSeq  one caller making a bounded series of calls, with the series *)
(*            recorded                                                     *)
(*   SpecStr  the string-capacity validation that raises StringTooLong     *)
(***************************************************************************)
EXTENDS Naturals, Sequences, FiniteSets

(* ------------------------------ bounds -------------------------------- *)

\* Number of threads calling nvml_try concurrently.
NThreads == 2

\* Number of calls the sequential caller makes.
MaxCalls == 3

\* Longest string handed to validate_string.
MaxStrLen == 5

\* Largest capacity handed to validate_string.
MaxCap == 4

(* ------------------------- the error taxonomy ------------------------- *)

\* foreign_links of error_chain!.
ForeignKinds == {"IntoStringError", "Utf8Error", "NulError"}

\* The variants documented "This error is specific to this Rust wrapper".
WrapperKinds == {"StringTooLong", "IncorrectBits", "UnexpectedVariant"}

\* The variants documented with a condition reported by NVML.
NativeKinds ==
    {"Uninitialized", "InvalidArg", "NotSupported", "NoPermission",
     "AlreadyInitialized", "NotFound", "InsufficientSize",
     "InsufficientPower", "DriverNotLoaded", "Timeout", "IrqIssue",
     "LibraryNotFound", "FunctionNotFound", "CorruptedInfoROM", "GpuLost",
     "ResetRequired", "OperatingSystem", "LibRmVersionMismatch", "InUse",
     "NoData", "Unknown"}

\* A variant without payload.
Kind(v) == [variant |-> v]

\* StringTooLong(max_len: usize, actual_len: usize)
StringTooLong(max_len_, actual_len_) ==
    [variant |-> "StringTooLong", max_len |-> max_len_, actual_len |-> actual_len_]

\* InsufficientSize(required_size: usize)
InsufficientSize(required_size_) ==
    [variant |-> "InsufficientSize", required_size |-> required_size_]

\* Error::from_kind: an Error holding the kind.
from_kind(kind) == [kind |-> kind]

\* Result<()>: Ok(()) and Err(e).
Ok == [tag |-> "Ok"]

Err(e) == [tag |-> "Err", error |-> e]

\* A match that no arm decides: the value a non-exhaustive match would have
\* no answer for.
Unmatched == [tag |-> "Unmatched"]

\* No result yet.
NoResult == [tag |-> "NoResult"]

NoCode == "none"

(* ------------------------------ nvml_try ------------------------------ *)

\* The native status codes: the patterns of the exhaustive match.
nvmlReturn_t ==
    {"NVML_SUCCESS", "NVML_ERROR_UNINITIALIZED", "NVML_ERROR_INVALID_ARGUMENT",
     "NVML_ERROR_NOT_SUPPORTED", "NVML_ERROR_NO_PERMISSION",
     "NVML_ERROR_ALREADY_INITIALIZED", "NVML_ERROR_NOT_FOUND",
     "NVML_ERROR_INSUFFICIENT_SIZE", "NVML_ERROR_INSUFFICIENT_POWER",
     "NVML_ERROR_DRIVER_NOT_LOADED", "NVML_ERROR_TIMEOUT",
     "NVML_ERROR_IRQ_ISSUE", "NVML_ERROR_LIBRARY_NOT_FOUND",
     "NVML_ERROR_FUNCTION_NOT_FOUND", "NVML_ERROR_CORRUPTED_INFOROM",
     "NVML_ERROR_GPU_IS_LOST", "NVML_ERROR_RESET_REQUIRED",
     "NVML_ERROR_OPERATING_SYSTEM", "NVML_ERROR_LIB_RM_VERSION_MISMATCH",
     "NVML_ERROR_IN_USE", "NVML_ERROR_NO_DATA", "NVML_ERROR_UNKNOWN"}

\* The arms of `match code`, in source order.
Arms ==
    << [pat |-> "NVML_SUCCESS",                       out |-> Ok],
       [pat |-> "NVML_ERROR_UNINITIALIZED",           out |-> Err(from_kind(Kind("Uninitialized")))],
       [pat |-> "NVML_ERROR_INVALID_ARGUMENT",        out |-> Err(from_kind(Kind("InvalidArg")))],
       [pat |-> "NVML_ERROR_NOT_SUPPORTED",           out |-> Err(from_kind(Kind("NotSupported")))],
       [pat |-> "NVML_ERROR_NO_PERMISSION",           out |-> Err(from_kind(Kind("NoPermission")))],
       [pat |-> "NVML_ERROR_ALREADY_INITIALIZED",     out |-> Err(from_kind(Kind("AlreadyInitialized")))],
       [pat |-> "NVML_ERROR_NOT_FOUND",               out |-> Err(from_kind(Kind("NotFound")))],
       [pat |-> "NVML_ERROR_INSUFFICIENT_SIZE",       out |-> Err(from_kind(InsufficientSize(0)))],
       [pat |-> "NVML_ERROR_INSUFFICIENT_POWER",      out |-> Err(from_kind(Kind("InsufficientPower")))],
       [pat |-> "NVML_ERROR_DRIVER_NOT_LOADED",       out |-> Err(from_kind(Kind("DriverNotLoaded")))],
       [pat |-> "NVML_ERROR_TIMEOUT",                 out |-> Err(from_kind(Kind("Timeout")))],
       [pat |-> "NVML_ERROR_IRQ_ISSUE",               out |-> Err(from_kind(Kind("IrqIssue")))],
       [pat |-> "NVML_ERROR_LIBRARY_NOT_FOUND",       out |-> Err(from_kind(Kind("LibraryNotFound")))],
       [pat |-> "NVML_ERROR_FUNCTION_NOT_FOUND",      out |-> Err(from_kind(Kind("FunctionNotFound")))],
       [pat |-> "NVML_ERROR_CORRUPTED_INFOROM",       out |-> Err(from_kind(Kind("CorruptedInfoROM")))],
       [pat |-> "NVML_ERROR_GPU_IS_LOST",             out |-> Err(from_kind(Kind("GpuLost")))],
       [pat |-> "NVML_ERROR_RESET_REQUIRED",          out |-> Err(from_kind(Kind("ResetRequired")))],
       [pat |-> "NVML_ERROR_OPERATING_SYSTEM",        out |-> Err(from_kind(Kind("OperatingSystem")))],
       [pat |-> "NVML_ERROR_LIB_RM_VERSION_MISMATCH", out |-> Err(from_kind(Kind("LibRmVersionMismatch")))],
       [pat |-> "NVML_ERROR_IN_USE",                  out |-> Err(from_kind(Kind("InUse")))],
       [pat |-> "NVML_ERROR_NO_DATA",                 out |-> Err(from_kind(Kind("NoData")))],
       [pat |-> "NVML_ERROR_UNKNOWN",                 out |-> Err(from_kind(Kind("Unknown")))] >>

VARIABLES
    pc,       \* pc[t]: "idle", "called" (inside nvml_try) or "returned"
    code,     \* code[t]: the argument of thread t's call
    arm,      \* arm[t]: the arm of the match that decided t's call (0: none)
    res,      \* res[t]: what t's call returned
    trace,    \* the sequential caller's calls so far: <<code, result>> pairs
    s,        \* validate_string: the string
    max_len,  \* validate_string: the capacity
    vpc,      \* validate_string: "input" or "done"
    vres      \* validate_string: the result

vars == <<pc, code, arm, res, trace, s, max_len, vpc, vres>>

Threads == 1..NThreads

(* -------- the mapping table of the specification (section 4.1) -------- *)

\* Native condition -> mapped kind, as the specification's table gives it.
SpecKind(c) ==
    CASE c = "NVML_ERROR_UNINITIALIZED"           -> Kind("Uninitialized")
      [] c = "NVML_ERROR_INVALID_ARGUMENT"        -> Kind("InvalidArg")
      [] c = "NVML_ERROR_NOT_SUPPORTED"           -> Kind("NotSupported")
      [] c = "NVML_ERROR_NO_PERMISSION"           -> Kind("NoPermission")
      [] c = "NVML_ERROR_ALREADY_INITIALIZED"     -> Kind("AlreadyInitialized")
      [] c = "NVML_ERROR_NOT_FOUND"               -> Kind("NotFound")
      [] c = "NVML_ERROR_INSUFFICIENT_SIZE"       -> InsufficientSize(0)
      [] c = "NVML_ERROR_INSUFFICIENT_POWER"      -> Kind("InsufficientPower")
      [] c = "NVML_ERROR_DRIVER_NOT_LOADED"       -> Kind("DriverNotLoaded")
      [] c = "NVML_ERROR_TIMEOUT"                 -> Kind("Timeout")
      [] c = "NVML_ERROR_IRQ_ISSUE"               -> Kind("IrqIssue")
      [] c = "NVML_ERROR_LIBRARY_NOT_FOUND"       -> Kind("LibraryNotFound")
      [] c = "NVML_ERROR_FUNCTION_NOT_FOUND"      -> Kind("FunctionNotFound")
      [] c = "NVML_ERROR_CORRUPTED_INFOROM"       -> Kind("CorruptedInfoROM")
      [] c = "NVML_ERROR_GPU_IS_LOST"             -> Kind("GpuLost")
      [] c = "NVML_ERROR_RESET_REQUIRED"          -> Kind("ResetRequired")
      [] c = "NVML_ERROR_OPERATING_SYSTEM"        -> Kind("OperatingSystem")
      [] c = "NVML_ERROR_LIB_RM_VERSION_MISMATCH" -> Kind("LibRmVersionMismatch")
      [] c = "NVML_ERROR_IN_USE"                  -> Kind("InUse")
      [] c = "NVML_ERROR_NO_DATA"                 -> Kind("NoData")
      [] c = "NVML_ERROR_UNKNOWN"                 -> Kind("Unknown")
      [] OTHER                                    -> Kind("none")

\* What a lone, sequential call with code c is specified to return.
LoneCall(c) ==
    IF c = "NVML_SUCCESS" THEN Ok ELSE Err(from_kind(SpecKind(c)))

FailureCodes == nvmlReturn_t \ {"NVML_SUCCESS"}

(* ----------------------------- the match ------------------------------ *)

\* Altered match: the NVML_ERROR_NO_DATA arm is missing.
MatchArm_NoDataArmMissing(c) ==
    IF c # "NVML_ERROR_NO_DATA" /\ \E i \in DOMAIN Arms : Arms[i].pat = c
    THEN CHOOSE i \in DOMAIN Arms : Arms[i].pat = c
    ELSE 0

\* The arm that decides `match code`: the first whose pattern is the code;
\* 0 when there is none.
MatchArm(c) ==
    IF \E i \in DOMAIN Arms : Arms[i].pat = c
    THEN CHOOSE i \in DOMAIN Arms :
            /\ Arms[i].pat = c
            /\ \A j \in 1..(i - 1) : Arms[j].pat # c
    ELSE 0

\* The outcome of the arm MatchArm chooses.
ArmOutcome(c) ==
    IF MatchArm(c) = 0 THEN Unmatched ELSE Arms[MatchArm(c)].out

\* Altered nvml_try: "no data" taken for success.
nvml_try_NoDataIsOk(c) ==
    IF c = "NVML_ERROR_NO_DATA" THEN Ok ELSE ArmOutcome(c)

\* Altered nvml_try: the kinds of the IN_USE and NO_DATA arms exchanged.
nvml_try_ArmsSwapped(c) ==
    CASE c = "NVML_ERROR_IN_USE"  -> Err(from_kind(Kind("NoData")))
      [] c = "NVML_ERROR_NO_DATA" -> Err(from_kind(Kind("InUse")))
      [] OTHER                    -> ArmOutcome(c)

\* Altered nvml_try: NVML_ERROR_TIMEOUT collapsed into Unknown.
nvml_try_TimeoutIsUnknown(c) ==
    IF c = "NVML_ERROR_TIMEOUT"
    THEN Err(from_kind(Kind("Unknown")))
    ELSE ArmOutcome(c)

\* Altered nvml_try: a required size other than 0.
nvml_try_SizeOne(c) ==
    IF c = "NVML_ERROR_INSUFFICIENT_SIZE"
    THEN Err(from_kind(InsufficientSize(1)))
    ELSE ArmOutcome(c)

\* Altered nvml_try: NVML_ERROR_UNKNOWN reported as the wrapper's own
\* UnexpectedVariant.
nvml_try_UnknownIsUnexpected(c) ==
    IF c = "NVML_ERROR_UNKNOWN"
    THEN Err(from_kind(Kind("UnexpectedVariant")))
    ELSE ArmOutcome(c)

\* Altered nvml_try: the required size counts the calls made so far.
nvml_try_CountsCalls(c) ==
    IF c = "NVML_ERROR_INSUFFICIENT_SIZE"
    THEN Err(from_kind(InsufficientSize(Len(trace))))
    ELSE ArmOutcome(c)

\* Altered nvml_try: the argument is kept in one place shared by all
\* threads, so a call may match the code of another call in progress.
nvml_try_SharedArgument(c) ==
    IF \E u \in Threads : pc[u] = "called" /\ code[u] # c
    THEN ArmOutcome(code[CHOOSE u \in Threads : pc[u] = "called" /\ code[u] # c])
    ELSE ArmOutcome(c)

\* Altered nvml_try: the NoData kind is never produced.
nvml_try_NoDataIsUnknown(c) ==
    IF c = "NVML_ERROR_NO_DATA"
    THEN Err(from_kind(Kind("Unknown")))
    ELSE ArmOutcome(c)

\* pub fn nvml_try(code: nvmlReturn_t) -> Result<()>
nvml_try(c) == ArmOutcome(c)

(* --------------------- Spec: threads calling nvml_try ----------------- *)

\* Thread t calls nvml_try(c); a result it still held is dropped.
Call(t, c) ==
    /\ pc[t] \in {"idle", "returned"}
    /\ pc' = [pc EXCEPT ![t] = "called"]
    /\ code' = [code EXCEPT ![t] = c]
    /\ arm' = [arm EXCEPT ![t] = 0]
    /\ res' = [res EXCEPT ![t] = NoResult]
    /\ UNCHANGED <<trace, s, max_len, vpc, vres>>

\* The match of thread t's call is decided and the call returns.
Match(t) ==
    /\ pc[t] = "called"
    /\ arm' = [arm EXCEPT ![t] = MatchArm(code[t])]
    /\ res' = [res EXCEPT ![t] = nvml_try(code[t])]
    /\ pc' = [pc EXCEPT ![t] = "returned"]
    /\ UNCHANGED <<code, trace, s, max_len, vpc, vres>>

Init ==
    /\ pc = [t \in Threads |-> "idle"]
    /\ code = [t \in Threads |-> NoCode]
    /\ arm = [t \in Threads |-> 0]
    /\ res = [t \in Threads |-> NoResult]
    /\ trace = <<>>
    /\ s = <<>>
    /\ max_len = 0
    /\ vpc = "done"
    /\ vres = NoResult

Next ==
    \E t \in Threads :
        \/ \E c \in nvmlReturn_t : Call(t, c)
        \/ Match(t)

Spec == Init /\ [][Next]_vars

(* ------------- SpecSeq: one caller, a series of calls ----------------- *)

\* The caller calls nvml_try(c) and keeps the code and the result.
SeqCall(c) ==
    /\ Len(trace) < MaxCalls
    /\ trace' = Append(trace, <<c, nvml_try(c)>>)
    /\ UNCHANGED <<pc, code, arm, res, s, max_len, vpc, vres>>

NextSeq == \E c \in nvmlReturn_t : SeqCall(c)

SpecSeq == Init /\ [][NextSeq]_vars

(* -------------- SpecStr: string-capacity validation ------------------- *)

Alphabet == {"h", "e", "l", "o"}

Strings == UNION {[1..n -> Alphabet] : n \in 0..MaxStrLen}

\* Altered validation: a string of exactly the capacity is refused.
validate_string_OffByOne(str, cap) ==
    IF Len(str) >= cap
    THEN Err(from_kind(StringTooLong(cap, Len(str))))
    ELSE Ok

\* String conversion: fails with StringTooLong(max_len, actual_len) when
\* actual_len > max_len; otherwise succeeds.
validate_string(str, cap) ==
    IF Len(str) > cap
    THEN Err(from_kind(StringTooLong(cap, Len(str))))
    ELSE Ok

ValidateString ==
    /\ vpc = "input"
    /\ vres' = validate_string(s, max_len)
    /\ vpc' = "done"
    /\ UNCHANGED <<pc, code, arm, res, trace, s, max_len>>

InitStr ==
    /\ pc = [t \in Threads |-> "idle"]
    /\ code = [t \in Threads |-> NoCode]
    /\ arm = [t \in Threads |-> 0]
    /\ res = [t \in Threads |-> NoResult]
    /\ trace = <<>>
    /\ s \in Strings
    /\ max_len \in 0..MaxCap
    /\ vpc = "input"
    /\ vres = NoResult

NextStr == ValidateString

SpecStr == InitStr /\ [][NextStr]_vars

(* ----------------------------- properties ------------------------------ *)

Returned(t) == pc[t] = "returned"

\* The variant of the kind an Err result carries.
VariantOf(r) == r.error.kind.variant

\* C1: a call returns Ok(()) if and only if its code is NVML_SUCCESS; every
\* other code returns an Err.
C1_OkIffSuccess ==
    \A t \in Threads :
        Returned(t) =>
            /\ (res[t] = Ok) <=> (code[t] = "NVML_SUCCESS")
            /\ code[t] # "NVML_SUCCESS" => res[t].tag = "Err"

C1_Witness ==
    \E t, u \in Threads :
        /\ Returned(t) /\ code[t] = "NVML_SUCCESS" /\ res[t] = Ok
        /\ Returned(u) /\ code[u] = "NVML_ERROR_NO_DATA" /\ res[u].tag = "Err"

\* C2: nvml_try is total over the 22 native codes: every call returns Ok or
\* Err in the one step that decides the match, and the deciding arm is an
\* explicit arm whose pattern is the code itself, never a missing or default
\* arm.
C2_Total ==
    /\ Cardinality(nvmlReturn_t) = 22
    /\ \A t \in Threads :
          Returned(t) =>
              /\ arm[t] \in DOMAIN Arms
              /\ Arms[arm[t]].pat = code[t]
              /\ res[t] = Arms[arm[t]].out
              /\ res[t].tag \in {"Ok", "Err"}

C2_Witness ==
    \E t, u \in Threads :
        /\ Returned(t) /\ code[t] = "NVML_ERROR_NO_DATA" /\ arm[t] = 21
        /\ Returned(u) /\ code[u] = "NVML_ERROR_UNKNOWN" /\ arm[u] = 22

\* C3: for every non-success code the call returns Err of exactly the kind
\* the specification's table gives for it.
C3_MappingTable ==
    \A t \in Threads :
        (Returned(t) /\ code[t] # "NVML_SUCCESS") =>
            res[t] = Err(from_kind(SpecKind(code[t])))

C3_Witness ==
    \E t, u \in Threads :
        /\ Returned(t) /\ code[t] = "NVML_ERROR_NOT_FOUND"
        /\ res[t] = Err(from_kind(Kind("NotFound")))
        /\ Returned(u) /\ code[u] = "NVML_ERROR_LIB_RM_VERSION_MISMATCH"
        /\ res[u] = Err(from_kind(Kind("LibRmVersionMismatch")))

\* C4: the failure mapping is injective: two calls with distinct non-success
\* codes return different variants, and only NVML_ERROR_UNKNOWN returns
\* Unknown.
C4_Injective ==
    /\ \A t, u \in Threads :
          ( /\ Returned(t) /\ Returned(u)
            /\ code[t] \in FailureCodes /\ code[u] \in FailureCodes
            /\ code[t] # code[u] )
          => /\ res[t].tag = "Err" /\ res[u].tag = "Err"
             /\ VariantOf(res[t]) # VariantOf(res[u])
    /\ \A t \in Threads :
          (Returned(t) /\ res[t].tag = "Err" /\ VariantOf(res[t]) = "Unknown")
          => code[t] = "NVML_ERROR_UNKNOWN"

C4_Witness ==
    \E t, u \in Threads :
        /\ Returned(t) /\ code[t] = "NVML_ERROR_TIMEOUT"
        /\ Returned(u) /\ code[u] = "NVML_ERROR_UNKNOWN"
        /\ VariantOf(res[t]) = "Timeout" /\ VariantOf(res[u]) = "Unknown"

C6_NoWrapperOrForeignKind ==
    \A t \in Threads :
        (Returned(t) /\ res[t].tag = "Err") =>
            VariantOf(res[t]) \notin (WrapperKinds \cup ForeignKinds)

C6_Witness ==
    \E t, u \in Threads :
        /\ t # u
        /\ Returned(t) /\ code[t] = "NVML_ERROR_UNKNOWN" /\ res[t].tag = "Err"
        /\ Returned(u) /\ code[u] = "NVML_ERROR_INVALID_ARGUMENT" /\ res[u].tag = "Err"

C8_ThreadSafe ==
    [][ \A t \in Threads :
          /\ (pc[t] = "called" /\ pc'[t] = "returned")
                => res'[t] = LoneCall(code[t])
          /\ pc'[t] # pc[t]
                => \A u \in Threads \ {t} :
                      /\ pc'[u] = pc[u]
                      /\ code'[u] = code[u]
                      /\ res'[u] = res[u] ]_vars

C8_Witness ==
    \E t, u \in Threads :
        /\ Returned(t) /\ code[t] = "NVML_ERROR_GPU_IS_LOST"
        /\ res[t] = LoneCall(code[t])
        /\ pc[u] = "called" /\ code[u] = "NVML_ERROR_IN_USE"

\* C9: validation of a string against a capacity succeeds whenever
\* len(s) <= max_len and fails with StringTooLong carrying max_len first and
\* the actual length second whenever len(s) > max_len.
C9_StringBoundary ==
    vpc = "done" =>
        /\ Len(s) <= max_len => vres = Ok
        /\ Len(s) > max_len =>
              /\ vres.tag = "Err"
              /\ VariantOf(vres) = "StringTooLong"
              /\ vres.error.kind.max_len = max_len
              /\ vres.error.kind.actual_len = Len(s)

C9_Witness ==
    /\ vpc = "done"
    /\ s = <<"h", "e", "l", "l", "o">>
    /\ max_len = 3
    /\ vres = Err(from_kind(StringTooLong(3, 5)))

\* What nvml_try returns over the non-success codes, and the variants of
\* the errors among it.
FailureResults == {nvml_try(c) : c \in FailureCodes}

FailureVariants == {VariantOf(r) : r \in {x \in FailureResults : x.tag = "Err"}}

\* C10: the variants nvml_try returns over the 21 non-success codes are
\* exactly the 21 native-derived variants, so the failure mapping is a
\* bijection between the codes and these variants: every variant a call
\* returns is native-derived, and every native-derived variant is returned
\* for some code.
C10_Bijection ==
    /\ \A t \in Threads :
          (Returned(t) /\ res[t].tag = "Err") => VariantOf(res[t]) \in NativeKinds
    /\ Cardinality(FailureCodes) = 21
    /\ Cardinality(NativeKinds) = 21
    /\ \A r \in FailureResults : r.tag = "Err"
    /\ FailureVariants = NativeKinds

C10_Witness ==
    \E t, u \in Threads :
        /\ Returned(t) /\ code[t] = "NVML_ERROR_NO_DATA"
        /\ VariantOf(res[t]) = "NoData"
        /\ Returned(u) /\ code[u] = "NVML_ERROR_UNINITIALIZED"
        /\ VariantOf(res[u]) = "Uninitialized"

====
